---- MODULE Spec2Model ----
(***************************************************************************)
(* PyOS (src/PyOS.py): a simulated shell over an in-memory file-system     *)
(* tree.  The state is the PyOS object's file_system and current_path,     *)
(* the last line read by run(), the text that line made the shell print,   *)
(* and whether the run() loop is still going.  One action per verb of the  *)
(* command table, each the whole of one iteration of run()'s loop.         *)
(***************************************************************************)
EXTENDS Integers, Sequences, FiniteSets, TLC

VARIABLES
    user,           \* self.user: fixed when the object is constructed
    file_system,    \* self.file_system: the root node (nested dicts)
    current_path,   \* self.current_path: list of path segments
    user_input,     \* the line input() returned in the last loop iteration
    out,            \* what that iteration printed, one element per print() call
    running         \* TRUE while run()'s loop has not been left

vars == <<user, file_system, current_path, user_input, out, running>>

-----------------------------------------------------------------------------
(* Bounds of the model *)

\* no command is issued that would leave the tree with more nodes than this
\* (the seed tree has 5 below the root)
MaxNodes == 5

-----------------------------------------------------------------------------
(* Nodes: dicts with a "type" tag *)

Dir(ch) == [type |-> "dir", children |-> ch]
File(c) == [type |-> "file", content |-> c]
\* Python's None, returned by _get_node_from_path for a path that does not resolve
None == [type |-> "None"]
NoChildren == [n \in {} |-> None]

WelcomeText == "Welcome to PyOS! Type 'help' to see available commands."
OsReleaseText == "PyOS Version 1.0 (Simulated)"

\* the users a session is started for; PyOS() takes "user"
Users == {"user", "alice"}

InitFileSystem(u) ==
    Dir(("home" :> Dir(u :> Dir("welcome.txt" :> File(WelcomeText))))
        @@ ("etc" :> Dir("os-release" :> File(OsReleaseText))))

\* the start path with the default user's name written in
InitPath_fixed(u) == <<"home", "user">>

InitPath(u) == <<"home", u>>

Banner == <<"PyOS [Version 1.0]", "(c) Simulated Corporation. All rights reserved.", "">>

-----------------------------------------------------------------------------
(* Helpers *)

\* The strings the model uses as names, in the order Python's str comparison
\* (by code point) gives them; sorted() in _ls orders names by it.
CodePointOrder ==
    <<" ", "..", "/", ">", "a", "a/b", "alice", "b", "etc", "home", "os-release",
      "user", "welcome.txt">>

StrLE(a, b) ==
    LET rank(n) == CHOOSE i \in 1..Len(CodePointOrder) : CodePointOrder[i] = n
    IN  rank(a) <= rank(b)

RECURSIVE sorted(_)
sorted(names) ==
    IF names = {} THEN <<>>
    ELSE LET least == CHOOSE x \in names : \A y \in names : StrLE(x, y)
         IN  <<least>> \o sorted(names \ {least})

\* sep.join(strs)
RECURSIVE join(_, _)
join(sep, strs) ==
    IF strs = <<>> THEN ""
    ELSE IF Len(strs) = 1 THEN strs[1]
    ELSE strs[1] \o sep \o join(sep, Tail(strs))

\* a split() that keeps the whitespace as words
split_keep(line) == line

\* str.split(): the words of a line; " " stands for a run of whitespace
split(line) == SelectSeq(line, LAMBDA t : t # " ")

\* list.index(x): 0-based position of the first x, or -1 for ValueError
index(list, x) ==
    IF \E i \in 1..Len(list) : list[i] = x
    THEN (CHOOSE i \in 1..Len(list) :
              list[i] = x /\ \A j \in 1..(i - 1) : list[j] # x) - 1
    ELSE -1

RECURSIVE Walk(_, _)
Walk(node, path_list) ==
    IF path_list = <<>> THEN node
    ELSE LET part == Head(path_list) IN
         IF part \in DOMAIN node.children /\ node.children[part].type = "dir"
         THEN Walk(node.children[part], Tail(path_list))
         ELSE None

\* self: the PyOS object's fields that the handlers read or write
Object(fs, path) == [user |-> user, file_system |-> fs, current_path |-> path]

_get_node_from_path(self, path_list) == Walk(self.file_system, path_list)

_get_current_node(self) == _get_node_from_path(self, self.current_path)

\* The tree after the directory at path_list got the children ch: the handlers
\* change current_node["children"] in place, and current_node is the node of the
\* tree that current_path leads to.
RECURSIVE Replace(_, _, _)
Replace(node, path_list, ch) ==
    IF path_list = <<>> THEN Dir(ch)
    ELSE LET part == Head(path_list) IN
         Dir([n \in DOMAIN node.children |->
                 IF n = part THEN Replace(node.children[part], Tail(path_list), ch)
                 ELSE node.children[n]])

\* SetCurrentChildren that writes to the children of the root
SetCurrentChildren_root(self, ch) ==
    [self EXCEPT !.file_system = Replace(self.file_system, <<>>, ch)]

SetCurrentChildren(self, ch) ==
    [self EXCEPT !.file_system = Replace(self.file_system, self.current_path, ch)]

\* number of nodes below node
RECURSIVE NodeCount(_)
RECURSIVE SumOver(_, _)
SumOver(ch, names) ==
    IF names = {} THEN 0
    ELSE LET n == CHOOSE x \in names : TRUE
         IN  1 + NodeCount(ch[n]) + SumOver(ch, names \ {n})
NodeCount(node) ==
    IF node.type = "dir" THEN SumOver(node.children, DOMAIN node.children) ELSE 0

path_str(path) == IF path # <<>> THEN "/" \o join("/", path) ELSE "/"

-----------------------------------------------------------------------------
(* Command implementations.  Each gives what the handler leaves behind: the  *)
(* object, the lines printed, and the exception that left it ("" if it       *)
(* returned).  No handler changes the object before it raises.               *)

Return(self, printed) == [self |-> self, out |-> printed, exc |-> "", msg |-> ""]
Raise(self, exc, msg, printed) == [self |-> self, out |-> printed, exc |-> exc, msg |-> msg]

\* None["children"]
NoneTypeError == "'NoneType' object is not subscriptable"

HelpText ==
    <<"PyOS Command List:",
      "  help          - Shows this help message.",
      "  ls [path]     - Lists contents of a directory.",
      "  cd <path>     - Changes the current directory. Use '..' for parent, '/' for root.",
      "  mkdir <name>  - Creates a new directory.",
      "  cat <file>    - Displays the content of a file.",
      "  echo <text> > <file> - Writes text to a file, creating it if necessary.",
      "  rm <name>     - Removes a file or an empty directory.",
      "  pwd           - Prints the current working directory path.",
      "  date          - Displays the current date and time.",
      "  exit          - Exits the PyOS session.">>

_help(self, args) == Return(self, HelpText)

\* display_name without the slash that marks a directory
display_name_plain(node, name) == name

display_name(node, name) ==
    IF node.children[name].type = "dir" THEN name \o "/" ELSE name

\* the names _ls prints, in the order it prints them
Listing(node) ==
    LET names == sorted(DOMAIN node.children)
    IN  [i \in 1..Len(names) |-> display_name(node, names[i])]

\* one element per name printed, and "" for the closing print()
_ls(self, args) ==
    LET node == _get_current_node(self) IN
    IF node = None THEN Raise(self, "TypeError", NoneTypeError, <<>>)
    ELSE IF DOMAIN node.children = {} THEN Return(self, <<>>)
    ELSE Return(self, Listing(node) \o <<"">>)

\* _cd with the pop of '..' left unguarded: list.pop() on [] raises IndexError
_cd_unguarded_pop(self, args) ==
    IF args = <<>> THEN Return([self EXCEPT !.current_path = <<"home", self.user>>], <<>>)
    ELSE LET path == args[1] IN
    IF path = "/" THEN Return([self EXCEPT !.current_path = <<>>], <<>>)
    ELSE IF path = ".." THEN
        IF self.current_path # <<>>
        THEN Return([self EXCEPT !.current_path =
                                 SubSeq(self.current_path, 1, Len(self.current_path) - 1)], <<>>)
        ELSE Raise(self, "IndexError", "pop from empty list", <<>>)
    ELSE LET current_node == _get_current_node(self) IN
    IF current_node = None THEN Raise(self, "TypeError", NoneTypeError, <<>>)
    ELSE IF path \in DOMAIN current_node.children
            /\ current_node.children[path].type = "dir"
    THEN Return([self EXCEPT !.current_path = Append(self.current_path, path)], <<>>)
    ELSE Return(self, <<"cd: no such directory: " \o path>>)

\* _cd whose home directory is that of the user named "user"
_cd_home_fixed(self, args) ==
    IF args = <<>> THEN Return([self EXCEPT !.current_path = <<"home", "user">>], <<>>)
    ELSE LET path == args[1] IN
    IF path = "/" THEN Return([self EXCEPT !.current_path = <<>>], <<>>)
    ELSE IF path = ".." THEN
        IF self.current_path # <<>>
        THEN Return([self EXCEPT !.current_path =
                                 SubSeq(self.current_path, 1, Len(self.current_path) - 1)], <<>>)
        ELSE Return(self, <<>>)
    ELSE LET current_node == _get_current_node(self) IN
    IF current_node = None THEN Raise(self, "TypeError", NoneTypeError, <<>>)
    ELSE IF path \in DOMAIN current_node.children
            /\ current_node.children[path].type = "dir"
    THEN Return([self EXCEPT !.current_path = Append(self.current_path, path)], <<>>)
    ELSE Return(self, <<"cd: no such directory: " \o path>>)

_cd(self, args) ==
    IF args = <<>> THEN Return([self EXCEPT !.current_path = <<"home", self.user>>], <<>>)
    ELSE LET path == args[1] IN
    IF path = "/" THEN Return([self EXCEPT !.current_path = <<>>], <<>>)
    ELSE IF path = ".." THEN
        IF self.current_path # <<>>
        THEN Return([self EXCEPT !.current_path =
                                 SubSeq(self.current_path, 1, Len(self.current_path) - 1)], <<>>)
        ELSE Return(self, <<>>)
    ELSE LET current_node == _get_current_node(self) IN
    IF current_node = None THEN Raise(self, "TypeError", NoneTypeError, <<>>)
    ELSE IF path \in DOMAIN current_node.children
            /\ current_node.children[path].type = "dir"
    THEN Return([self EXCEPT !.current_path = Append(self.current_path, path)], <<>>)
    ELSE Return(self, <<"cd: no such directory: " \o path>>)

\* _mkdir without the test for an existing child
_mkdir_unchecked(self, args) ==
    IF args = <<>> THEN Return(self, <<"mkdir: missing operand">>)
    ELSE LET dir_name == args[1]
             current_node == _get_current_node(self) IN
    IF current_node = None THEN Raise(self, "TypeError", NoneTypeError, <<>>)
    ELSE Return(SetCurrentChildren(self, (dir_name :> Dir(NoChildren)) @@ current_node.children),
                <<>>)

\* _mkdir that enters the directory it has made
_mkdir_enters(self, args) ==
    IF args = <<>> THEN Return(self, <<"mkdir: missing operand">>)
    ELSE LET dir_name == args[1]
             current_node == _get_current_node(self) IN
    IF current_node = None THEN Raise(self, "TypeError", NoneTypeError, <<>>)
    ELSE IF dir_name \in DOMAIN current_node.children
    THEN Return(self, <<"mkdir: cannot create directory '" \o dir_name \o "': File exists">>)
    ELSE Return([SetCurrentChildren(self, (dir_name :> Dir(NoChildren)) @@ current_node.children)
                     EXCEPT !.current_path = Append(self.current_path, dir_name)],
                <<>>)

_mkdir(self, args) ==
    IF args = <<>> THEN Return(self, <<"mkdir: missing operand">>)
    ELSE LET dir_name == args[1]
             current_node == _get_current_node(self) IN
    IF current_node = None THEN Raise(self, "TypeError", NoneTypeError, <<>>)
    ELSE IF dir_name \in DOMAIN current_node.children
    THEN Return(self, <<"mkdir: cannot create directory '" \o dir_name \o "': File exists">>)
    ELSE Return(SetCurrentChildren(self, (dir_name :> Dir(NoChildren)) @@ current_node.children),
                <<>>)

\* _cat without the test for a missing operand: args[0] raises IndexError
_cat_unchecked(self, args) ==
    IF args = <<>> THEN Raise(self, "IndexError", "list index out of range", <<>>)
    ELSE LET file_name == args[1]
             current_node == _get_current_node(self) IN
    IF current_node = None THEN Raise(self, "TypeError", NoneTypeError, <<>>)
    ELSE IF file_name \in DOMAIN current_node.children
            /\ current_node.children[file_name].type = "file"
    THEN Return(self, <<current_node.children[file_name].content>>)
    ELSE Return(self, <<"cat: " \o file_name \o ": No such file or it is a directory">>)

_cat(self, args) ==
    IF args = <<>> THEN Return(self, <<"cat: missing operand">>)
    ELSE LET file_name == args[1]
             current_node == _get_current_node(self) IN
    IF current_node = None THEN Raise(self, "TypeError", NoneTypeError, <<>>)
    ELSE IF file_name \in DOMAIN current_node.children
            /\ current_node.children[file_name].type = "file"
    THEN Return(self, <<current_node.children[file_name].content>>)
    ELSE Return(self, <<"cat: " \o file_name \o ": No such file or it is a directory">>)

EchoUsage == <<"Usage: echo <text> > <filename>">>

\* _echo that appends to an existing file instead of replacing it
_echo_append(self, args) ==
    LET redirect_index == index(args, ">") IN
    IF redirect_index = -1 THEN Return(self, EchoUsage)
    ELSE IF redirect_index + 2 > Len(args) THEN Return(self, EchoUsage)
    ELSE LET file_name == args[redirect_index + 2]
             content_list == SubSeq(args, 1, redirect_index)
             content == join(" ", content_list)
             current_node == _get_current_node(self) IN
    IF current_node = None THEN Raise(self, "TypeError", NoneTypeError, <<>>)
    ELSE LET old == IF file_name \in DOMAIN current_node.children
                       /\ current_node.children[file_name].type = "file"
                    THEN current_node.children[file_name].content ELSE ""
         IN  Return(SetCurrentChildren(self, (file_name :> File(old \o content))
                                             @@ current_node.children),
                    <<>>)

_echo(self, args) ==
    LET redirect_index == index(args, ">") IN
    IF redirect_index = -1 THEN Return(self, EchoUsage)            \* ValueError, caught
    ELSE IF redirect_index + 2 > Len(args) THEN Return(self, EchoUsage)   \* IndexError, caught
    ELSE LET file_name == args[redirect_index + 2]
             content_list == SubSeq(args, 1, redirect_index)
             content == join(" ", content_list)
             current_node == _get_current_node(self) IN
    IF current_node = None THEN Raise(self, "TypeError", NoneTypeError, <<>>)
    ELSE Return(SetCurrentChildren(self, (file_name :> File(content)) @@ current_node.children),
                <<>>)

\* _rm without the test for a non-empty directory
_rm_unchecked(self, args) ==
    IF args = <<>> THEN Return(self, <<"rm: missing operand">>)
    ELSE LET name == args[1]
             current_node == _get_current_node(self) IN
    IF current_node = None THEN Raise(self, "TypeError", NoneTypeError, <<>>)
    ELSE IF name \notin DOMAIN current_node.children
    THEN Return(self, <<"rm: cannot remove '" \o name \o "': No such file or directory">>)
    ELSE Return(SetCurrentChildren(self, [n \in DOMAIN current_node.children \ {name} |->
                                              current_node.children[n]]),
                <<>>)

_rm(self, args) ==
    IF args = <<>> THEN Return(self, <<"rm: missing operand">>)
    ELSE LET name == args[1]
             current_node == _get_current_node(self) IN
    IF current_node = None THEN Raise(self, "TypeError", NoneTypeError, <<>>)
    ELSE IF name \notin DOMAIN current_node.children
    THEN Return(self, <<"rm: cannot remove '" \o name \o "': No such file or directory">>)
    ELSE LET item_to_remove == current_node.children[name] IN
    IF item_to_remove.type = "dir" /\ DOMAIN item_to_remove.children # {}
    THEN Return(self, <<"rm: failed to remove '" \o name \o "': Directory not empty">>)
    ELSE Return(SetCurrentChildren(self, [n \in DOMAIN current_node.children \ {name} |->
                                              current_node.children[n]]),
                <<>>)

_pwd(self, args) == Return(self, <<path_str(self.current_path)>>)

\* datetime.now().strftime(...): the host's clock decides the text
DateTexts == {"Sun Nov 01 09:00:00 2026", "Sun Nov 01 09:00:01 2026"}

_date(self, args, now) == Return(self, <<now>>)

\* _exit that prints its line and returns
_exit_returns(self, args) == Return(self, <<"Shutting down PyOS...">>)

\* sys.exit(0) raises SystemExit, which is no Exception
_exit(self, args) == Raise(self, "SystemExit", "0", <<"Shutting down PyOS...">>)

-----------------------------------------------------------------------------
(* The lines the user types *)

\* operands typed after cd, mkdir, cat and rm
CdArgs == {"/", "..", "home", user, "a", "welcome.txt"}
MkdirArgs == {"a", "welcome.txt"}
CatArgs == {"a", "welcome.txt"}
RmArgs == {"a", "welcome.txt", user}

\* argument lists typed after echo
EchoArgs ==
    {<<>>, <<"a">>, <<"a", ">">>, <<"a", ">", "a">>, <<"a", "b", ">", "a">>,
     <<"b", ">", user>>}

CommandLines ==
    {<<"help">>, <<"ls">>, <<"ls", "home">>, <<"pwd">>, <<"date">>, <<"exit">>,
     <<"foo">>, <<"cd">>, <<"mkdir">>, <<"cat">>, <<"rm">>}
    \cup {<<"cd", x>> : x \in CdArgs}
    \cup {<<"mkdir", x>> : x \in MkdirArgs}
    \cup {<<"cat", x>> : x \in CatArgs}
    \cup {<<"rm", x>> : x \in RmArgs}
    \cup {<<"echo">> \o a : a \in EchoArgs}

\* blank and whitespace-only lines, and a command with whitespace around it
InputLines == CommandLines \cup {<<>>, <<" ">>, <<" ", "pwd", " ">>}

\* input() raised EOFError or KeyboardInterrupt
EndOfInput == <<"<EOF>">>
\* no line was read yet
NoInput == <<"<start>">>

\* the keys of self.commands
commands == {"help", "ls", "cd", "mkdir", "cat", "echo", "rm", "pwd", "date", "exit"}

-----------------------------------------------------------------------------
(* run(): one action is one iteration of the loop *)

Init ==
    /\ user \in Users
    /\ file_system = InitFileSystem(user)
    /\ current_path = InitPath(user)
    /\ user_input = NoInput
    /\ out = Banner
    /\ running = TRUE

\* the object before the iteration
Self == Object(file_system, current_path)

\* the line read is a command line whose first word is verb
Reads(input, verb) ==
    /\ running
    /\ split(input) # <<>>
    /\ split(input)[1] = verb

args_of(input) == Tail(split(input))

\* Printed without the report of a caught exception
Printed_silent(command, res) == res.out

\* what the iteration printed: the handler's lines and, for an exception that
\* `except Exception` catches, the report of it
Printed(command, res) ==
    IF res.exc \notin {"", "SystemExit"}
    THEN res.out \o <<"An error occurred executing '" \o command \o "': " \o res.msg>>
    ELSE res.out

\* Dispatch without the try/except: any exception leaves run()
Dispatch_uncaught(input, res) ==
    /\ NodeCount(res.self.file_system) <= MaxNodes
    /\ user_input' = input
    /\ file_system' = res.self.file_system
    /\ current_path' = res.self.current_path
    /\ out' = res.out
    /\ running' = (res.exc = "")
    /\ UNCHANGED user

\* self.commands[command](args) inside try/except Exception: res is what the
\* handler left behind.  The first conjunct is the bound of the model: a command
\* that would grow the tree past MaxNodes is not issued.
Dispatch(input, res) ==
    /\ NodeCount(res.self.file_system) <= MaxNodes
    /\ user_input' = input
    /\ file_system' = res.self.file_system
    /\ current_path' = res.self.current_path
    /\ out' = Printed(split(input)[1], res)
    /\ running' = (res.exc # "SystemExit")
    /\ UNCHANGED user

Help  == \E input \in InputLines : Reads(input, "help") /\ Dispatch(input, _help(Self, args_of(input)))
Ls    == \E input \in InputLines : Reads(input, "ls") /\ Dispatch(input, _ls(Self, args_of(input)))
Cd    == \E input \in InputLines : Reads(input, "cd") /\ Dispatch(input, _cd(Self, args_of(input)))
Mkdir == \E input \in InputLines : Reads(input, "mkdir") /\ Dispatch(input, _mkdir(Self, args_of(input)))
Cat   == \E input \in InputLines : Reads(input, "cat") /\ Dispatch(input, _cat(Self, args_of(input)))
Echo  == \E input \in InputLines : Reads(input, "echo") /\ Dispatch(input, _echo(Self, args_of(input)))
Rm    == \E input \in InputLines : Reads(input, "rm") /\ Dispatch(input, _rm(Self, args_of(input)))
Pwd   == \E input \in InputLines : Reads(input, "pwd") /\ Dispatch(input, _pwd(Self, args_of(input)))
Date  == \E input \in InputLines, now \in DateTexts :
             Reads(input, "date") /\ Dispatch(input, _date(Self, args_of(input), now))
Exit  == \E input \in InputLines : Reads(input, "exit") /\ Dispatch(input, _exit(Self, args_of(input)))

\* an unknown command that ends the loop
NotFound_fatal ==
    \E input \in InputLines :
        /\ running
        /\ split(input) # <<>>
        /\ split(input)[1] \notin commands
        /\ user_input' = input
        /\ out' = <<split(input)[1] \o ": command not found">>
        /\ running' = FALSE
        /\ UNCHANGED <<user, file_system, current_path>>

NotFound ==
    \E input \in InputLines :
        /\ running
        /\ split(input) # <<>>
        /\ split(input)[1] \notin commands
        /\ user_input' = input
        /\ out' = <<split(input)[1] \o ": command not found">>
        /\ UNCHANGED <<user, file_system, current_path, running>>

BlankLine ==
    \E input \in InputLines :
        /\ running
        /\ split(input) = <<>>
        /\ user_input' = input
        /\ out' = <<>>
        /\ UNCHANGED <<user, file_system, current_path, running>>

Interrupt ==
    /\ running
    /\ user_input' = EndOfInput
    /\ out' = <<"\nExiting.">>
    /\ running' = FALSE
    /\ UNCHANGED <<user, file_system, current_path>>

Next ==
    \/ Help \/ Ls \/ Cd \/ Mkdir \/ Cat \/ Echo \/ Rm \/ Pwd \/ Date \/ Exit
    \/ NotFound \/ BlankLine \/ Interrupt

Spec == Init /\ [][Next]_vars

-----------------------------------------------------------------------------
(* Vocabulary of the properties *)

\* the current directory, or None when current_path does not resolve
Cwd == _get_current_node(Self)

\* the words of the line the last iteration read
Words == split(user_input)

IsChild(node, x) == node # None /\ x \in DOMAIN node.children
IsDirChild(node, x) == IsChild(node, x) /\ node.children[x].type = "dir"
IsFileChild(node, x) == IsChild(node, x) /\ node.children[x].type = "file"
IsNonEmptyDirChild(node, x) ==
    IsDirChild(node, x) /\ DOMAIN node.children[x].children # {}

\* the paths of all directories at or below node, each relative to node
RECURSIVE DirPaths(_)
DirPaths(node) ==
    {<<>>} \cup UNION {{<<n>> \o p : p \in DirPaths(node.children[n])} :
                          n \in {m \in DOMAIN node.children : node.children[m].type = "dir"}}

IsNonEmptyDirAt(fs, p) == Walk(fs, p) # None /\ DOMAIN Walk(fs, p).children # {}

-----------------------------------------------------------------------------
(* C1..C5 *)

\* C1: no command removes a directory that has at least one child: every
\* directory that is non-empty before a command is still a directory at the
\* same path after it.
C1_NonEmptyDirectoryStays ==
    [][\A p \in DirPaths(file_system) :
           IsNonEmptyDirAt(file_system, p) => Walk(file_system', p) # None]_vars

\* C2: `rm x` where x is a non-empty directory of the current directory prints
\* the directory-not-empty message and changes neither the tree nor currentPath.
C2_RmNonEmptyDirectoryFails ==
    [][\A x \in RmArgs :
           (split(user_input') = <<"rm", x>> /\ IsNonEmptyDirChild(Cwd, x))
           => /\ out' = <<"rm: failed to remove '" \o x \o "': Directory not empty">>
              /\ file_system' = file_system
              /\ current_path' = current_path]_vars

\* rm user was refused in /home, where user still holds welcome.txt
C2_Witness ==
    /\ Words = <<"rm", user>>
    /\ out = <<"rm: failed to remove '" \o user \o "': Directory not empty">>
    /\ IsNonEmptyDirChild(Cwd, user)

\* C3: `mkdir x` where the current directory already has a child x (file or
\* directory) prints the File exists message and leaves the tree as it was, the
\* child x with its kind, content and children included.
C3_MkdirExistingFails ==
    [][\A x \in MkdirArgs :
           (split(user_input') = <<"mkdir", x>> /\ IsChild(Cwd, x))
           => /\ out' = <<"mkdir: cannot create directory '" \o x \o "': File exists">>
              /\ file_system' = file_system
              /\ Cwd' # None
              /\ x \in DOMAIN Cwd'.children
              /\ Cwd'.children[x] = Cwd.children[x]]_vars

\* mkdir a was refused where a is a directory that has children
C3_Witness ==
    /\ Words = <<"mkdir", "a">>
    /\ out = <<"mkdir: cannot create directory 'a': File exists">>
    /\ IsNonEmptyDirChild(Cwd, "a")

\* C4: `cd x` for a bare name x that is no directory of the current directory
\* (missing, or a file) prints `no such directory: x` and changes neither
\* currentPath nor the tree.
C4_CdMissingReportsNoSuchDirectory ==
    [][\A x \in CdArgs \ {"/", ".."} :
           (split(user_input') = <<"cd", x>> /\ ~IsDirChild(Cwd, x))
           => /\ out' = <<"cd: no such directory: " \o x>>
              /\ current_path' = current_path
              /\ file_system' = file_system]_vars

\* C4, where currentPath resolves: the message is printed and nothing changes.
C4_HoldsWhereCwdResolves ==
    [][\A x \in CdArgs \ {"/", ".."} :
           (split(user_input') = <<"cd", x>> /\ Cwd # None /\ ~IsDirChild(Cwd, x))
           => /\ out' = <<"cd: no such directory: " \o x>>
              /\ current_path' = current_path
              /\ file_system' = file_system]_vars

\* C5: `cd ..` drops exactly the last segment of a non-empty currentPath, leaves
\* an empty currentPath empty, prints nothing and never changes the tree.
C5_CdDotDotPopsOrStays ==
    [][split(user_input') = <<"cd", "..">>
       => /\ out' = <<>>
          /\ file_system' = file_system
          /\ IF current_path = <<>>
             THEN current_path' = <<>>
             ELSE current_path = Append(current_path', current_path[Len(current_path)])]_vars

\* cd .. has run and the session is at the root, nothing printed
C5_Witness ==
    /\ Words = <<"cd", "..">>
    /\ current_path = <<>>
    /\ out = <<>>

-----------------------------------------------------------------------------
(* C6..C10 *)

\* the tokens of an echo argument list before its first ">"
RECURSIVE TokensBefore(_)
TokensBefore(a) ==
    IF a = <<>> \/ Head(a) = ">" THEN <<>> ELSE <<Head(a)>> \o TokensBefore(Tail(a))

\* what follows the first ">"
AfterRedirect(a) == SubSeq(a, Len(TokensBefore(a)) + 2, Len(a))

\* w is `echo t1 ... tn > f ...`: a ">" with a filename token after it
IsEchoTo(w) == Len(w) >= 1 /\ w[1] = "echo" /\ AfterRedirect(Tail(w)) # <<>>
EchoFile(w) == AfterRedirect(Tail(w))[1]

\* t1, ..., tn with one space between neighbours
RECURSIVE Spaced(_)
Spaced(ts) ==
    IF ts = <<>> THEN ""
    ELSE IF Len(ts) = 1 THEN ts[1]
    ELSE Spaced(SubSeq(ts, 1, Len(ts) - 1)) \o " " \o ts[Len(ts)]

EchoText(w) == Spaced(TokensBefore(Tail(w)))

\* C6: `echo t1 ... tn > f` followed immediately by `cat f` prints exactly
\* t1 ... tn joined by single spaces.
C6_CatPrintsWhatEchoWrote ==
    [][(IsEchoTo(Words) /\ split(user_input') = <<"cat", EchoFile(Words)>>)
       => out' = <<EchoText(Words)>>]_vars

\* C6, where the echo reported nothing (it wrote the file): the cat that follows
\* prints the text.
C6_HoldsAfterEchoThatWrote ==
    [][(IsEchoTo(Words) /\ out = <<>> /\ split(user_input') = <<"cat", EchoFile(Words)>>)
       => out' = <<EchoText(Words)>>]_vars

\* what `cat f` prints when issued in the state self
CatPrints(self, f) == Printed("cat", _cat(self, <<f>>))

\* C7: echo overwrites: a successful `echo ... > f` leaves f a file holding
\* exactly the new text whatever f was before, the current directory has the
\* children it had and f, each name once, and `cat f` then prints that text.
C7_EchoOverwrites ==
    [][(IsEchoTo(split(user_input')) /\ out' = <<>>)
       => LET f    == EchoFile(split(user_input'))
              text == EchoText(split(user_input'))
          IN  /\ Cwd # None /\ Cwd' # None
              /\ DOMAIN Cwd'.children = DOMAIN Cwd.children \cup {f}
              /\ Cwd'.children[f] = File(text)
              /\ CatPrints(Self', f) = <<text>>]_vars

\* `echo a > a` has written a, and `echo a b > a` issued next leaves a holding
\* "a b", which `cat a` prints
C7_Witness ==
    /\ Words = <<"echo", "a", ">", "a">>
    /\ out = <<>>
    /\ IsFileChild(Cwd, "a") /\ Cwd.children["a"].content = "a"
    /\ LET second == _echo(Self, <<"a", "b", ">", "a">>)
       IN  /\ second.exc = ""
           /\ _get_current_node(second.self).children["a"].content = "a b"
           /\ CatPrints(second.self, "a") = <<"a b">>

\* how often e occurs in the sequence s
Count(s, e) == Cardinality({i \in 1..Len(s) : s[i] = e})

\* lines is a listing of the children of node: every child once, as name or
\* name/, in ascending order of the names, and the closing empty print
IsSortedListingOf(lines, node) ==
    LET names == DOMAIN node.children
        k     == Cardinality(names)
        nameAt(i) == CHOOSE n \in names : lines[i] \in {n, n \o "/"}
    IN  /\ Len(lines) = k + 1
        /\ lines[k + 1] = ""
        /\ \A i \in 1..k : \E n \in names : lines[i] \in {n, n \o "/"}
        /\ \A i, j \in 1..k : i < j => (nameAt(i) # nameAt(j) /\ StrLE(nameAt(i), nameAt(j)))

IsLs(w) == Len(w) >= 1 /\ w[1] = "ls"

SeedTree(u) ==
    [type |-> "dir",
     children |->
        ("home" :> [type |-> "dir",
                    children |->
                       (u :> [type |-> "dir",
                              children |->
                                 ("welcome.txt" :>
                                     [type |-> "file",
                                      content |-> "Welcome to PyOS! Type 'help' to see available commands."])])])
        @@ ("etc" :> [type |-> "dir",
                      children |->
                         ("os-release" :> [type |-> "file",
                                           content |-> "PyOS Version 1.0 (Simulated)"])])]

\* C9: before any line is read the tree is the seed layout for the session's
\* user u and currentPath is [home, u]; a first `pwd` prints /home/u and a first
\* `cat welcome.txt` prints the welcome string.
C9_InitialStateIsSeed ==
    [][user_input = NoInput
       => /\ file_system = SeedTree(user)
          /\ current_path = <<"home", user>>
          /\ split(user_input') = <<"pwd">> => out' = <<"/home/" \o user>>
          /\ split(user_input') = <<"cat", "welcome.txt">>
             => out' = <<"Welcome to PyOS! Type 'help' to see available commands.">>]_vars

\* pwd has printed /home/alice in alice's session, the tree still the seed
C9_Witness ==
    /\ user = "alice"
    /\ Words = <<"pwd">>
    /\ out = <<"/home/alice">>
    /\ file_system = SeedTree("alice")

\* C10: `ls`, with or without an argument, never reports an error: it prints
\* the children of the current directory.
C10_LsNeverFails ==
    [][IsLs(split(user_input'))
       => /\ Cwd # None
          /\ IF DOMAIN Cwd.children = {} THEN out' = <<>>
             ELSE IsSortedListingOf(out', Cwd)]_vars

\* C10, where currentPath resolves: ls prints the children of the current
\* directory.
C10_HoldsWhereCwdResolves ==
    [][(IsLs(split(user_input')) /\ Cwd # None)
       => IF DOMAIN Cwd.children = {} THEN out' = <<>>
          ELSE IsSortedListingOf(out', Cwd)]_vars

-----------------------------------------------------------------------------
(* C11..C20 *)

\* the first word of the line w, "" for a blank line
Verb(w) == IF w = <<>> THEN "" ELSE w[1]

\* C11: the session leaves Running only on `exit` or on end-of-input/interrupt,
\* never on another command, a user error or a fault in a handler; once it is
\* Terminated no line is read and the tree and currentPath never change.
C11_OnlyExitOrEndOfInputTerminates ==
    [][/\ (running /\ ~running')
          => (user_input' = EndOfInput \/ Verb(split(user_input')) = "exit")
       /\ ~running
          => /\ ~running'
             /\ user_input' = user_input
             /\ file_system' = file_system
             /\ current_path' = current_path]_vars

\* exit has ended the session
C11_Witness ==
    /\ ~running
    /\ Words = <<"exit">>
    /\ out = <<"Shutting down PyOS...">>

\* the handler of the line w reads current_node["children"]
NeedsCurrentNode(w) ==
    \/ Verb(w) = "ls"
    \/ Verb(w) \in {"mkdir", "cat", "rm"} /\ Len(w) >= 2
    \/ Verb(w) = "cd" /\ Len(w) >= 2 /\ w[2] \notin {"/", ".."}
    \/ IsEchoTo(w)

\* C12: a fault raised by the handler of a recognised verb (current_path does
\* not resolve, so the handler subscripts None) is reported as
\* `An error occurred executing '<verb>': <message>`, changes nothing, and the
\* session stays Running.
C12_FaultIsCaughtAndReported ==
    [][\A input \in InputLines :
           (user_input' = input /\ Cwd = None /\ NeedsCurrentNode(split(input)))
           => /\ out' = <<"An error occurred executing '" \o Verb(split(input))
                          \o "': 'NoneType' object is not subscriptable">>
              /\ running'
              /\ file_system' = file_system
              /\ current_path' = current_path]_vars

\* ls has faulted where current_path does not resolve, and the session goes on
C12_Witness ==
    /\ Words = <<"ls">>
    /\ Cwd = None
    /\ out = <<"An error occurred executing 'ls': 'NoneType' object is not subscriptable">>
    /\ running

\* the verbs of the command table
KnownVerbs == {"help", "ls", "cd", "mkdir", "cat", "echo", "rm", "pwd", "date", "exit"}

\* C13: a line whose verb v is not in the command table prints
\* `v: command not found`; the session stays Running and the tree and
\* currentPath are unchanged.
C13_UnknownVerbNotFound ==
    [][\A input \in InputLines :
           (user_input' = input /\ split(input) # <<>> /\ Verb(split(input)) \notin KnownVerbs)
           => /\ out' = <<Verb(split(input)) \o ": command not found">>
              /\ running'
              /\ file_system' = file_system
              /\ current_path' = current_path]_vars

\* foo was typed and reported, the session still running
C13_Witness ==
    /\ Words = <<"foo">>
    /\ out = <<"foo: command not found">>
    /\ running

\* lines whose operand looks like a path of two segments: split() keeps a/b as
\* one token, and _mkdir and _echo use the token as the child's name
PathLikeLines == {<<"mkdir", "a/b">>, <<"echo", "a", ">", "a/b">>}

MkdirPathLike ==
    \E input \in PathLikeLines : Reads(input, "mkdir") /\ Dispatch(input, _mkdir(Self, args_of(input)))

EchoPathLike ==
    \E input \in PathLikeLines : Reads(input, "echo") /\ Dispatch(input, _echo(Self, args_of(input)))

\* the shell fed the lines of InputLines and the path-like ones
NextPathLike == Next \/ MkdirPathLike \/ EchoPathLike

SpecPathLike == Init /\ [][NextPathLike]_vars

RECURSIVE Names(_)
\* every child name stored at or below node
Names(node) ==
    IF node.type # "dir" THEN {}
    ELSE (DOMAIN node.children)
         \cup UNION {Names(node.children[n]) : n \in DOMAIN node.children}

\* the names of CodePointOrder that contain a "/"
NamesWithSlash == {"/", "a/b"}

\* C14: every child name stored anywhere in the tree is a non-empty string
\* without "/", whatever whitespace-separated tokens the commands are given
\* (a/b as mkdir's operand or as echo's filename included).
C14_NamesAreSingleSegments ==
    \A n \in Names(file_system) : n # "" /\ n \notin NamesWithSlash

\* C15: `cd` with no argument sets currentPath to exactly [home, user] from
\* every reachable state, whatever the current location, and leaves the tree
\* unchanged.
C15_CdHomeSetsHomePath ==
    [][split(user_input') = <<"cd">>
       => /\ current_path' = <<"home", user>>
          /\ file_system' = file_system
          /\ out' = <<>>
          /\ running']_vars

\* alice has typed cd after her home directory was removed: the directory can
\* only be removed from /home, so cd has moved her from another place
C15_Witness ==
    /\ user = "alice"
    /\ Words = <<"cd">>
    /\ current_path = <<"home", "alice">>
    /\ Cwd = None

\* the children of the current directory other than x are in node what they
\* are in the current directory
OthersUnchanged(node, x) ==
    /\ DOMAIN node.children \ {x} = DOMAIN Cwd.children \ {x}
    /\ \A n \in DOMAIN Cwd.children \ {x} : node.children[n] = Cwd.children[n]

\* C16: `rm x`: where x is a file or an empty directory of the current
\* directory, x is absent afterwards and every other child is unchanged; where
\* x is absent, rm prints its not-found message and the tree is unchanged;
\* currentPath is unchanged in both cases.
C16_RmRemovesOrReportsMissing ==
    [][\A x \in RmArgs :
           split(user_input') = <<"rm", x>>
           => /\ (IsChild(Cwd, x) /\ ~IsNonEmptyDirChild(Cwd, x))
                 => /\ Cwd' # None
                    /\ ~IsChild(Cwd', x)
                    /\ OthersUnchanged(Cwd', x)
                    /\ current_path' = current_path
              /\ ~IsChild(Cwd, x)
                 => /\ out' = <<"rm: cannot remove '" \o x \o "': No such file or directory">>
                    /\ file_system' = file_system
                    /\ current_path' = current_path]_vars

\* C16 where current_path resolves
C16_HoldsWhereCwdResolves ==
    [][\A x \in RmArgs :
           (split(user_input') = <<"rm", x>> /\ Cwd # None)
           => /\ (IsChild(Cwd, x) /\ ~IsNonEmptyDirChild(Cwd, x))
                 => /\ Cwd' # None
                    /\ ~IsChild(Cwd', x)
                    /\ OthersUnchanged(Cwd', x)
                    /\ current_path' = current_path
              /\ ~IsChild(Cwd, x)
                 => /\ out' = <<"rm: cannot remove '" \o x \o "': No such file or directory">>
                    /\ file_system' = file_system
                    /\ current_path' = current_path]_vars

\* the lines of InputLines with malformed arguments, each with the one line
\* its handler prints
Malformed ==
    {<<input, <<input[1] \o ": missing operand">> >> :
         input \in {<<"mkdir">>, <<"cat">>, <<"rm">>}}
    \cup {<<input, <<"Usage: echo <text> > <filename>">> >> :
              input \in {<<"echo">>, <<"echo", "a">>, <<"echo", "a", ">">>}}

\* C17: malformed arguments never change state: mkdir, cat or rm without an
\* operand, and echo without a ">" or without a filename after the first ">",
\* print their one-line message and leave the tree and currentPath unchanged
\* and the session Running.
C17_MalformedArgumentsChangeNothing ==
    [][\A m \in Malformed :
           user_input' = m[1]
           => /\ out' = m[2]
              /\ file_system' = file_system
              /\ current_path' = current_path
              /\ running']_vars

\* echo without a filename was answered with its usage line, even where
\* current_path does not resolve
C17_Witness ==
    /\ Words = <<"echo", "a", ">">>
    /\ out = EchoUsage
    /\ Cwd = None
    /\ running

\* C18: a blank or whitespace-only line is ignored: no handler is dispatched,
\* nothing is printed, the tree and currentPath are unchanged and the session
\* stays Running.
C18_BlankLineIgnored ==
    [][user_input' \in {<<>>, <<" ">>}
       => /\ out' = <<>>
          /\ file_system' = file_system
          /\ current_path' = current_path
          /\ running']_vars

\* a whitespace-only line has been read and nothing printed
C18_Witness ==
    /\ user_input = <<" ">>
    /\ out = <<>>
    /\ running

\* C19: currentPath always resolves to an existing directory of the tree, in
\* particular after `cd` with no argument and after rm or echo changed the tree.
C19_CurrentPathResolves == Cwd # None

\* C20: only mkdir, rm and echo can change the tree and only cd can change
\* currentPath: help, ls, cat, pwd, date and unknown verbs leave both unchanged,
\* cd leaves the tree unchanged, and mkdir, rm and echo leave currentPath
\* unchanged.
C20_OnlyMutatorsChangeState ==
    [][/\ file_system' # file_system
          => Verb(split(user_input')) \in {"mkdir", "rm", "echo"}
       /\ current_path' # current_path
          => Verb(split(user_input')) = "cd"]_vars

\* mkdir has made a directory where the shell still is
C20_Witness ==
    /\ Words = <<"mkdir", "a">>
    /\ out = <<>>
    /\ IsDirChild(Cwd, "a")
    /\ current_path = <<"home", user>>

-----------------------------------------------------------------------------
(* C21..C23 *)

\* the trees a and b differ at most in the entry named n of the directory that
\* path leads to: along the path both have the same entries and equal ones
\* beside the path, and in the directory both have the same other entries
RECURSIVE SameExceptEntry(_, _, _, _)
SameExceptEntry(a, b, path, n) ==
    /\ a.type = "dir"
    /\ b.type = "dir"
    /\ IF path = <<>>
       THEN /\ DOMAIN a.children \ {n} = DOMAIN b.children \ {n}
            /\ \A m \in DOMAIN a.children \ {n} : a.children[m] = b.children[m]
       ELSE /\ DOMAIN a.children = DOMAIN b.children
            /\ Head(path) \in DOMAIN a.children
            /\ \A m \in DOMAIN a.children \ {Head(path)} : a.children[m] = b.children[m]
            /\ SameExceptEntry(a.children[Head(path)], b.children[Head(path)], Tail(path), n)

\* w is `mkdir n`, `rm n` or `echo ... > n`
IsMutation(w) ==
    \/ Len(w) >= 2 /\ w[1] \in {"mkdir", "rm"}
    \/ IsEchoTo(w)

\* the name the mutation w is about
Target(w) == IF w[1] = "echo" THEN EchoFile(w) ELSE w[2]

\* C21: a successful `mkdir n`, `rm n` or `echo ... > n` changes only the entry
\* named n of the current directory: every other entry of the current
\* directory and every directory and file elsewhere in the tree, of the same
\* name or another, is unchanged.
C21_MutationsAreLocal ==
    [][\A input \in InputLines :
           (user_input' = input /\ IsMutation(split(input)) /\ out' = <<>>)
           => /\ SameExceptEntry(file_system, file_system', current_path, Target(split(input)))
              /\ current_path' = current_path]_vars

\* mkdir a has succeeded in a directory with another entry, while another
\* directory of the tree has an entry a of its own
C21_Witness ==
    /\ Words = <<"mkdir", "a">>
    /\ out = <<>>
    /\ IsDirChild(Cwd, "a")
    /\ \E p \in DirPaths(file_system) :
           p # current_path /\ IsChild(Walk(file_system, p), "a")

\* how ls shows the child n of node
Shown(node, n) == IF node.children[n].type = "dir" THEN n \o "/" ELSE n

\* lines is exactly what ls prints for node: nothing for a directory without
\* children, otherwise every child once, directories with "/" and files
\* without, in ascending order of the names, and then the closing empty print
IsExactListingOf(lines, node) ==
    LET names == DOMAIN node.children
        k     == Cardinality(names)
        nameAt(i) == CHOOSE n \in names : lines[i] = Shown(node, n)
    IN  IF names = {} THEN lines = <<>>
        ELSE /\ Len(lines) = k + 1
             /\ lines[k + 1] = ""
             /\ \A n \in names : Cardinality({i \in 1..k : lines[i] = Shown(node, n)}) = 1
             /\ \A i, j \in 1..k : i < j => StrLE(nameAt(i), nameAt(j))

\* C22: what `ls` prints is exactly the set of children of the current
\* directory (never those of the directory its argument names), each name once,
\* in ascending order of the names, directories with "/" appended and files
\* without; for a directory without children it prints nothing.
C22_LsListsCurrentDirectory ==
    [][IsLs(split(user_input'))
       => /\ Cwd # None
          /\ IsExactListingOf(out', Cwd)]_vars

\* C22 where current_path resolves
C22_HoldsWhereCwdResolves ==
    [][(IsLs(split(user_input')) /\ Cwd # None)
       => /\ IsExactListingOf(out', Cwd)
          /\ file_system' = file_system
          /\ current_path' = current_path]_vars

\* the lines a finite input is made of here: one or two for every verb, an
\* unknown verb and a blank line, among them the lines that lead to a
\* current_path that does not resolve, and the end of the input
FiniteInputLines ==
    {<<"help">>, <<"ls">>, <<"cd">>, <<"cd", "..">>, <<"mkdir", "a">>,
     <<"cat", "welcome.txt">>, <<"echo", "a", ">", "a">>, <<"rm", "welcome.txt">>,
     <<"rm", user>>, <<"pwd">>, <<"date">>, <<"exit">>, <<"foo">>, <<>>, EndOfInput}

\* an iteration of run() on a line of the finite input
NextOfFiniteInput ==
    \/ Help /\ user_input' \in FiniteInputLines
    \/ Ls /\ user_input' \in FiniteInputLines
    \/ Cd /\ user_input' \in FiniteInputLines
    \/ Mkdir /\ user_input' \in FiniteInputLines
    \/ Cat /\ user_input' \in FiniteInputLines
    \/ Echo /\ user_input' \in FiniteInputLines
    \/ Rm /\ user_input' \in FiniteInputLines
    \/ Pwd /\ user_input' \in FiniteInputLines
    \/ Date /\ user_input' \in FiniteInputLines
    \/ Exit /\ user_input' \in FiniteInputLines
    \/ NotFound /\ user_input' \in FiniteInputLines
    \/ BlankLine /\ user_input' \in FiniteInputLines
    \/ Interrupt /\ user_input' \in FiniteInputLines

\* The shell fed a finite input that ends with `exit` or with the end of the
\* input: input() hands the lines over one by one, each iteration of run()
\* returns to input(), so the last line or the end of the input is read at
\* some time.
FiniteInputSpec == Init /\ [][NextOfFiniteInput]_vars /\ WF_vars(Exit \/ Interrupt)

\* C23: every line is processed to its end before the next is read and every
\* handler returns, so on a finite input that ends with `exit` or the end of
\* the input the session is Terminated at last, whatever commands came before.
C23_SessionTerminates == <>(~running)

\* the end of the input has ended a session in which commands had changed the
\* tree and the current directory
C23_Witness ==
    /\ ~running
    /\ user_input = EndOfInput
    /\ out = <<"\nExiting.">>
    /\ file_system # InitFileSystem(user)
    /\ current_path # InitPath(user)

====
